---- MODULE Spec2Model ----
(***************************************************************************)
(* ProofGate Python SDK (src/proofgate) and the example signer service     *)
(* (src/examples/signer_service/main.py).                                  *)
(*                                                                         *)
(* Spec        : the SDK clients ProofGate / AsyncProofGate and the helper  *)
(*               is_transaction_safe, driven by every transport outcome.   *)
(* SpecService : the /execute handler of the signer service, one program   *)
(*               point per statement group of the handler.                 *)
(***************************************************************************)
EXTENDS Integers, Sequences, FiniteSets, TLC

VARIABLES pg, sessionsCreated, netCalls, call, sent, transport, outcome,
          helperSession,
          pc, body, validated, validation, tx, txHash, chain, failedAt,
          nValidate, nSign, nBroadcast, response, served

clientVars == <<pg, sessionsCreated, netCalls, call, sent, transport, outcome,
                helperSession>>
serviceVars == <<pc, body, validated, validation, tx, txHash, chain, failedAt,
                 nValidate, nSign, nBroadcast, response, served>>
vars == <<pg, sessionsCreated, netCalls, call, sent, transport, outcome,
          helperSession,
          pc, body, validated, validation, tx, txHash, chain, failedAt,
          nValidate, nSign, nBroadcast, response, served>>

(***************************************************************************)
(* Bounds                                                                  *)
(***************************************************************************)
\* number of HTTP requests one behaviour may send through the SDK
MaxCalls == 2
\* number of /execute requests one behaviour of the service may serve
MaxServed == 2

(***************************************************************************)
(* Python values                                                           *)
(***************************************************************************)
\* Optional[T]: None is the empty sequence, a value v is <<v>>
None == <<>>
Some(v) == <<v>>

\* str as a sequence of characters, where the code inspects the characters
StartsWith(s, prefix) ==
    /\ Len(s) >= Len(prefix)
    /\ SubSeq(s, 1, Len(prefix)) = prefix

pg_prefix == <<"p", "g", "_">>

(***************************************************************************)
(* JSON values as they come out of response.json()                         *)
(***************************************************************************)
JAbsent == [t |-> "absent", s |-> "", n |-> 0, b |-> FALSE]
JNull == [t |-> "null", s |-> "", n |-> 0, b |-> FALSE]
JStr(x) == [t |-> "str", s |-> x, n |-> 0, b |-> FALSE]
JInt(x) == [t |-> "int", s |-> "", n |-> x, b |-> FALSE]
JBool(x) == [t |-> "bool", s |-> "", n |-> 0, b |-> x]
\* a nested JSON object; b tells whether it satisfies its own nested schema
JObj(ok) == [t |-> "obj", s |-> "", n |-> 0, b |-> ok]

FieldNames ==
    {"error", "message",
     "validationId", "result", "reason", "evidenceUri", "safe", "chainId",
     "authenticated", "tier", "backend", "onChainRecorded",
     "wallet", "isRegistered", "verificationStatus", "verificationMessage",
     "trustScore", "tierEmoji", "tierName", "stats", "registration",
     "recommendation",
     "timestamp", "transaction", "guardrailId", "agent", "proof",
     "validations_used", "validations_limit", "daily_spent_wei"}

EmptyObject == [k \in FieldNames |-> JAbsent]

\* dict.get(key): the value, or None when the key is absent
DictGet(obj, key) == IF obj[key].t = "absent" THEN JNull ELSE obj[key]

\* Python truthiness of a JSON value (the operand test of `or`)
Truthy(j) ==
    CASE j.t = "str" -> j.s # ""
      [] j.t = "int" -> j.n # 0
      [] j.t = "bool" -> j.b
      [] j.t = "obj" -> TRUE
      [] OTHER -> FALSE

(***************************************************************************)
(* HTTP exchange: what self._client.request(...) does for one request      *)
(***************************************************************************)
\* one element of the wire list "checks"
Check(name, passed, details, severity) ==
    [name |-> name, passed |-> passed, details |-> details,
     severity |-> severity]

\* a response body: parse says whether response.json() can decode it, shape
\* whether the decoded value is a JSON object, f its fields, checks its
\* "checks" list (an absent list and an empty one decode alike)
Body(parse, shape, f, checks) ==
    [parse |-> parse, shape |-> shape, f |-> f, checks |-> checks]

NoBody == Body(FALSE, "object", EmptyObject, <<>>)

TimeoutException == [kind |-> "timeout", msg |-> "", status |-> 0,
                     body |-> NoBody]
RequestError(msg) == [kind |-> "network", msg |-> msg, status |-> 0,
                      body |-> NoBody]
Response(status, b) == [kind |-> "response", msg |-> "", status |-> status,
                        body |-> b]

\* httpx.Response.is_success
is_success(status) == status >= 200 /\ status <= 299

(***************************************************************************)
(* exceptions.py                                                           *)
(***************************************************************************)
\* family is the Python class of the exception; code, message, status_code
\* and validation_result are the attributes ProofGateError.__init__ sets
Exception(family, code, message, status_code, validation_result) ==
    [family |-> family, code |-> code, message |-> message,
     status_code |-> status_code, validation_result |-> validation_result]

ProofGateError(message, code, status_code, validation_result) ==
    Exception("ProofGateError", code, message, status_code, validation_result)

\* an exception of another class escaping the SDK (no code, no status)
ForeignError(family) == Exception(family, "", JStr(""), None, None)

Return(v) == [kind |-> "return", value |-> Some(v), err |-> None]
Raise(e) == [kind |-> "raise", value |-> None, err |-> Some(e)]
NoOutcome == [kind |-> "none", value |-> None, err |-> None]

\* a or b or c, on JSON values
Or3(a, b, c) == IF Truthy(a) THEN a ELSE IF Truthy(b) THEN b ELSE c

(***************************************************************************)
(* ProofGate._request / AsyncProofGate._request, after the transport call  *)
(* has produced t                                                          *)
(***************************************************************************)
\* faulty variant: the API error without the HTTP status
AsyncProofGate_request_statusLost(t) ==
    CASE t.kind = "timeout" ->
           Raise(ProofGateError(JStr("Request timeout"), "TIMEOUT", None, None))
      [] t.kind = "network" ->
           Raise(ProofGateError(JStr(t.msg), "NETWORK_ERROR", None, None))
      [] OTHER ->
           IF ~t.body.parse
           THEN Raise(ForeignError("JSONDecodeError"))
           ELSE IF ~is_success(t.status)
           THEN IF t.body.shape # "object"
                THEN Raise(ForeignError("AttributeError"))
                ELSE Raise(ProofGateError(
                         Or3(DictGet(t.body.f, "error"),
                             DictGet(t.body.f, "message"),
                             JStr("HTTP " \o ToString(t.status))),
                         "API_ERROR", None, None))
           ELSE Return(t.body)

\* faulty variant: the two except clauses in the other order
ProofGate_request_exceptSwapped(t) ==
    CASE t.kind \in {"timeout", "network"} ->
           Raise(ProofGateError(JStr(t.msg), "NETWORK_ERROR", None, None))
      [] OTHER ->
           IF ~t.body.parse
           THEN Raise(ForeignError("JSONDecodeError"))
           ELSE IF ~is_success(t.status)
           THEN IF t.body.shape # "object"
                THEN Raise(ForeignError("AttributeError"))
                ELSE Raise(ProofGateError(
                         Or3(DictGet(t.body.f, "error"),
                             DictGet(t.body.f, "message"),
                             JStr("HTTP " \o ToString(t.status))),
                         "API_ERROR", Some(t.status), None))
           ELSE Return(t.body)

\* faulty variant: "message" looked up before "error"
ProofGate_request_messageFirst(t) ==
    CASE t.kind = "timeout" ->
           Raise(ProofGateError(JStr("Request timeout"), "TIMEOUT", None, None))
      [] t.kind = "network" ->
           Raise(ProofGateError(JStr(t.msg), "NETWORK_ERROR", None, None))
      [] OTHER ->
           IF ~t.body.parse
           THEN Raise(ForeignError("JSONDecodeError"))
           ELSE IF ~is_success(t.status)
           THEN IF t.body.shape # "object"
                THEN Raise(ForeignError("AttributeError"))
                ELSE Raise(ProofGateError(
                         Or3(DictGet(t.body.f, "message"),
                             DictGet(t.body.f, "error"),
                             JStr("HTTP " \o ToString(t.status))),
                         "API_ERROR", Some(t.status), None))
           ELSE Return(t.body)

ProofGate_request(t) ==
    CASE t.kind = "timeout" ->
           Raise(ProofGateError(JStr("Request timeout"), "TIMEOUT", None, None))
      [] t.kind = "network" ->
           Raise(ProofGateError(JStr(t.msg), "NETWORK_ERROR", None, None))
      [] OTHER ->
           IF ~t.body.parse
           THEN Raise(ForeignError("JSONDecodeError"))
           ELSE IF ~is_success(t.status)
           THEN IF t.body.shape # "object"
                THEN Raise(ForeignError("AttributeError"))
                ELSE Raise(ProofGateError(
                         Or3(DictGet(t.body.f, "error"),
                             DictGet(t.body.f, "message"),
                             JStr("HTTP " \o ToString(t.status))),
                         "API_ERROR", Some(t.status), None))
           ELSE Return(t.body)

AsyncProofGate_request(t) ==
    CASE t.kind = "timeout" ->
           Raise(ProofGateError(JStr("Request timeout"), "TIMEOUT", None, None))
      [] t.kind = "network" ->
           Raise(ProofGateError(JStr(t.msg), "NETWORK_ERROR", None, None))
      [] OTHER ->
           IF ~t.body.parse
           THEN Raise(ForeignError("JSONDecodeError"))
           ELSE IF ~is_success(t.status)
           THEN IF t.body.shape # "object"
                THEN Raise(ForeignError("AttributeError"))
                ELSE Raise(ProofGateError(
                         Or3(DictGet(t.body.f, "error"),
                             DictGet(t.body.f, "message"),
                             JStr("HTTP " \o ToString(t.status))),
                         "API_ERROR", Some(t.status), None))
           ELSE Return(t.body)

(***************************************************************************)
(* types.py: pydantic models and model_validate                            *)
(***************************************************************************)
\* one declared field: wire name (the alias), JSON type, whether it is
\* required, whether None is accepted (Optional[...]), and its Literal set
\* ({} when the field is no Literal)
Field(name, type, required, nullable, literal) ==
    [name |-> name, type |-> type, required |-> required,
     nullable |-> nullable, literal |-> literal]

FieldValid(obj, fld) ==
    LET j == obj[fld.name] IN
    CASE j.t = "absent" -> ~fld.required
      [] j.t = "null" -> fld.nullable
      [] j.t = "obj" -> fld.type = "obj" /\ j.b
      [] OTHER -> /\ j.t = fld.type
                  /\ (fld.literal = {} \/ j.s \in fld.literal)

ValidationCheckValid(c) == c.severity \in {"info", "warning", "critical"}

ValidateResponseFields ==
    {Field("validationId", "str", TRUE, FALSE, {}),
     Field("result", "str", TRUE, FALSE, {"PASS", "FAIL", "PENDING"}),
     Field("reason", "str", TRUE, FALSE, {}),
     Field("evidenceUri", "str", TRUE, FALSE, {}),
     Field("safe", "bool", TRUE, FALSE, {}),
     Field("chainId", "int", TRUE, FALSE, {}),
     Field("authenticated", "bool", FALSE, FALSE, {}),
     Field("tier", "str", FALSE, FALSE, {}),
     Field("backend", "str", FALSE, FALSE, {}),
     Field("onChainRecorded", "bool", FALSE, FALSE, {})}

AgentCheckResponseFields ==
    {Field("wallet", "str", TRUE, FALSE, {}),
     Field("isRegistered", "bool", TRUE, FALSE, {}),
     Field("verificationStatus", "str", TRUE, FALSE,
           {"verified", "registered", "unverified", "unknown"}),
     Field("verificationMessage", "str", TRUE, FALSE, {}),
     Field("trustScore", "int", TRUE, FALSE, {}),
     Field("tier", "str", TRUE, FALSE,
           {"diamond", "gold", "silver", "bronze", "unverified"}),
     Field("tierEmoji", "str", TRUE, FALSE, {}),
     Field("tierName", "str", TRUE, FALSE, {}),
     Field("stats", "obj", TRUE, FALSE, {}),
     Field("registration", "obj", FALSE, TRUE, {}),
     Field("recommendation", "str", TRUE, FALSE, {})}

EvidenceResponseFields ==
    {Field("validationId", "str", TRUE, FALSE, {}),
     Field("timestamp", "str", TRUE, FALSE, {}),
     Field("chainId", "int", TRUE, FALSE, {}),
     Field("transaction", "obj", TRUE, FALSE, {}),
     Field("result", "obj", TRUE, FALSE, {}),
     Field("guardrailId", "str", FALSE, TRUE, {}),
     Field("agent", "obj", TRUE, FALSE, {}),
     Field("proof", "obj", TRUE, FALSE, {})}

UsageResponseFields ==
    {Field("wallet", "str", TRUE, FALSE, {}),
     Field("tier", "str", TRUE, FALSE, {}),
     Field("validations_used", "int", TRUE, FALSE, {}),
     Field("validations_limit", "int", TRUE, FALSE, {}),
     Field("daily_spent_wei", "str", TRUE, FALSE, {})}

\* whether pydantic accepts the decoded body for a model with these fields
SchemaValid(b, fields) ==
    /\ b.shape = "object"
    /\ \A fld \in fields : FieldValid(b.f, fld)

\* the field's value, or its declared default when the body omits it
WithDefault(obj, name, default) ==
    IF obj[name].t = "absent" THEN default ELSE obj[name]

\* faulty variant: safe recomputed from result instead of read from the body
ValidateResponse_safeFromResult(b) ==
    [validation_id |-> b.f["validationId"].s,
     result |-> b.f["result"].s,
     reason |-> b.f["reason"].s,
     evidence_uri |-> b.f["evidenceUri"].s,
     safe |-> (b.f["result"].s = "PASS"),
     checks |-> b.checks,
     chain_id |-> b.f["chainId"].n,
     authenticated |-> WithDefault(b.f, "authenticated", JBool(FALSE)).b,
     tier |-> WithDefault(b.f, "tier", JStr("free")).s,
     backend |-> WithDefault(b.f, "backend", JStr("local")).s,
     on_chain_recorded |-> WithDefault(b.f, "onChainRecorded", JBool(FALSE)).b]

\* ValidateResponse.model_validate(data): wire aliases to attributes
ValidateResponse(b) ==
    [validation_id |-> b.f["validationId"].s,
     result |-> b.f["result"].s,
     reason |-> b.f["reason"].s,
     evidence_uri |-> b.f["evidenceUri"].s,
     safe |-> b.f["safe"].b,
     checks |-> b.checks,
     chain_id |-> b.f["chainId"].n,
     authenticated |-> WithDefault(b.f, "authenticated", JBool(FALSE)).b,
     tier |-> WithDefault(b.f, "tier", JStr("free")).s,
     backend |-> WithDefault(b.f, "backend", JStr("local")).s,
     on_chain_recorded |-> WithDefault(b.f, "onChainRecorded", JBool(FALSE)).b]

ValidateResponse_model_validate(b) ==
    IF /\ SchemaValid(b, ValidateResponseFields)
       /\ \A i \in 1..Len(b.checks) : ValidationCheckValid(b.checks[i])
    THEN Return(ValidateResponse(b))
    ELSE Raise(ForeignError("ValidationError"))

\* the three read models keep the decoded fields under the model's name
AgentCheckResponse_model_validate(b) ==
    IF SchemaValid(b, AgentCheckResponseFields)
    THEN Return([model |-> "AgentCheckResponse", fields |-> b.f])
    ELSE Raise(ForeignError("ValidationError"))

EvidenceResponse_model_validate(b) ==
    IF SchemaValid(b, EvidenceResponseFields)
    THEN Return([model |-> "EvidenceResponse", fields |-> b.f])
    ELSE Raise(ForeignError("ValidationError"))

UsageResponse_model_validate(b) ==
    IF SchemaValid(b, UsageResponseFields)
    THEN Return([model |-> "UsageResponse", fields |-> b.f])
    ELSE Raise(ForeignError("ValidationError"))

(***************************************************************************)
(* client.py: construction                                                 *)
(***************************************************************************)
DEFAULT_CHAIN_ID == 56

\* the arguments of validate / validate_or_throw
Args(from_address, to, data, value, guardrail_id, chain_id) ==
    [from_address |-> from_address, to |-> to, data |-> data,
     value |-> value, guardrail_id |-> guardrail_id, chain_id |-> chain_id]

NoArgs == Args("", "", "", "", None, None)

NoClient == [session |-> "none", kind |-> "sync", api_key |-> <<>>,
             chain_id |-> 0, guardrail_id |-> None]

\* faulty variant: only the emptiness of the key is checked, not its prefix
Client_init_noPrefixCheck(kind, api_key, chain_id, guardrail_id) ==
    IF api_key = <<>>
    THEN [raised |-> Some(ProofGateError(
                       JStr("API key is required. Get one at https://www.proofgate.xyz/dashboard"),
                       "MISSING_API_KEY", None, None)),
          client |-> NoClient, sessions |-> 0]
    ELSE [raised |-> None,
          client |-> [session |-> "open", kind |-> kind, api_key |-> api_key,
                      chain_id |-> chain_id, guardrail_id |-> guardrail_id],
          sessions |-> 1]

\* __init__ of either class: the two key checks, then the config and the
\* HTTP session; raised is the exception, client the constructed object
Client_init(kind, api_key, chain_id, guardrail_id) ==
    IF api_key = <<>>
    THEN [raised |-> Some(ProofGateError(
                       JStr("API key is required. Get one at https://www.proofgate.xyz/dashboard"),
                       "MISSING_API_KEY", None, None)),
          client |-> NoClient, sessions |-> 0]
    ELSE IF ~StartsWith(api_key, pg_prefix)
    THEN [raised |-> Some(ProofGateError(
                       JStr("Invalid API key format. Keys start with \"pg_\""),
                       "INVALID_API_KEY", None, None)),
          client |-> NoClient, sessions |-> 0]
    ELSE [raised |-> None,
          client |-> [session |-> "open", kind |-> kind, api_key |-> api_key,
                      chain_id |-> chain_id, guardrail_id |-> guardrail_id],
          sessions |-> 1]

ProofGate_init(api_key, chain_id, guardrail_id) ==
    Client_init("sync", api_key, chain_id, guardrail_id)

AsyncProofGate_init(api_key, chain_id, guardrail_id) ==
    Client_init("async", api_key, chain_id, guardrail_id)

(***************************************************************************)
(* client.py: the methods                                                  *)
(***************************************************************************)
\* a or b on Optional[str] / Optional[int]: b when a is None, "" or 0
OrStr(a, b) == IF a # None /\ a[1] # "" THEN a ELSE b
OrInt(a, b) == IF a # None /\ a[1] # 0 THEN a ELSE b

HttpRequest(method, path, json) ==
    [method |-> method, path |-> path, json |-> json]

\* the request validate hands to _request
validate_request(self, a) ==
    HttpRequest("POST", "/validate",
        Some([from |-> a.from_address, to |-> a.to, data |-> a.data,
              value |-> a.value,
              guardrailId |-> OrStr(a.guardrail_id, self.guardrail_id),
              chainId |-> OrInt(a.chain_id, Some(self.chain_id))]))

check_agent_request(wallet) ==
    HttpRequest("GET", "/agents/check?wallet=" \o wallet, None)

get_evidence_request(validation_id) ==
    HttpRequest("GET", "/evidence/" \o validation_id, None)

get_usage_request(wallet) ==
    HttpRequest("GET", "/validate?wallet=" \o wallet, None)

AsyncProofGate_validate_request(self, a) ==
    HttpRequest("POST", "/validate",
        Some([from |-> a.from_address, to |-> a.to, data |-> a.data,
              value |-> a.value,
              guardrailId |-> OrStr(a.guardrail_id, self.guardrail_id),
              chainId |-> OrInt(a.chain_id, Some(self.chain_id))]))

AsyncProofGate_check_agent_request(wallet) ==
    HttpRequest("GET", "/agents/check?wallet=" \o wallet, None)

AsyncProofGate_get_evidence_request(validation_id) ==
    HttpRequest("GET", "/evidence/" \o validation_id, None)

AsyncProofGate_get_usage_request(wallet) ==
    HttpRequest("GET", "/validate?wallet=" \o wallet, None)

\* faulty variant: a failed exchange is tried a second time
ProofGate_request_sends_retrying(req, t) ==
    IF t.kind \in {"timeout", "network"} \/ ~is_success(t.status)
    THEN <<req, req>>
    ELSE <<req>>

\* the requests _request puts on the wire for one call answered by t: the
\* single self._client.request(...) of its try block, whatever t is
ProofGate_request_sends(req, t) == <<req>>

AsyncProofGate_request_sends(req, t) == <<req>>

\* faulty variant: validate itself treats an unsafe verdict as an error
ProofGate_validate_raisesOnUnsafe(t) ==
    LET r == ProofGate_request(t) IN
    IF r.kind = "raise" THEN r
    ELSE LET v == ValidateResponse_model_validate(r.value[1]) IN
         IF v.kind = "return" /\ ~v.value[1].safe
         THEN Raise(ProofGateError(JStr(v.value[1].reason),
                                   "VALIDATION_FAILED", None, Some(v.value[1])))
         ELSE v

\* response = self._request(...); return Model.model_validate(response)
ProofGate_validate(t) ==
    LET r == ProofGate_request(t) IN
    IF r.kind = "raise" THEN r ELSE ValidateResponse_model_validate(r.value[1])

AsyncProofGate_validate(t) ==
    LET r == AsyncProofGate_request(t) IN
    IF r.kind = "raise" THEN r ELSE ValidateResponse_model_validate(r.value[1])

\* faulty variant: the error does not carry the verdict
ProofGate_validate_or_throw_noResult(t) ==
    LET r == ProofGate_validate(t) IN
    IF r.kind = "raise" THEN r
    ELSE IF ~r.value[1].safe
    THEN Raise(ProofGateError(JStr(r.value[1].reason), "VALIDATION_FAILED",
                              None, None))
    ELSE r

\* result = self.validate(...); if not result.safe: raise ...; return result
ProofGate_validate_or_throw(t) ==
    LET r == ProofGate_validate(t) IN
    IF r.kind = "raise" THEN r
    ELSE IF ~r.value[1].safe
    THEN Raise(ProofGateError(JStr(r.value[1].reason), "VALIDATION_FAILED",
                              None, Some(r.value[1])))
    ELSE r

AsyncProofGate_validate_or_throw(t) ==
    LET r == AsyncProofGate_validate(t) IN
    IF r.kind = "raise" THEN r
    ELSE IF ~r.value[1].safe
    THEN Raise(ProofGateError(JStr(r.value[1].reason), "VALIDATION_FAILED",
                              None, Some(r.value[1])))
    ELSE r

ProofGate_check_agent(t) ==
    LET r == ProofGate_request(t) IN
    IF r.kind = "raise" THEN r
    ELSE AgentCheckResponse_model_validate(r.value[1])

AsyncProofGate_check_agent(t) ==
    LET r == AsyncProofGate_request(t) IN
    IF r.kind = "raise" THEN r
    ELSE AgentCheckResponse_model_validate(r.value[1])

ProofGate_get_evidence(t) ==
    LET r == ProofGate_request(t) IN
    IF r.kind = "raise" THEN r
    ELSE EvidenceResponse_model_validate(r.value[1])

AsyncProofGate_get_evidence(t) ==
    LET r == AsyncProofGate_request(t) IN
    IF r.kind = "raise" THEN r
    ELSE EvidenceResponse_model_validate(r.value[1])

ProofGate_get_usage(t) ==
    LET r == ProofGate_request(t) IN
    IF r.kind = "raise" THEN r ELSE UsageResponse_model_validate(r.value[1])

AsyncProofGate_get_usage(t) ==
    LET r == AsyncProofGate_request(t) IN
    IF r.kind = "raise" THEN r ELSE UsageResponse_model_validate(r.value[1])

\* faulty variant: the helper built on validate_or_throw instead of validate
is_transaction_safe_result_throwing(t) ==
    LET r == ProofGate_validate_or_throw(t) IN
    IF r.kind = "raise" THEN r ELSE Return(r.value[1].safe)

\* is_transaction_safe, once its own client exists: return result.safe
is_transaction_safe_result(t) ==
    LET r == ProofGate_validate(t) IN
    IF r.kind = "raise" THEN r ELSE Return(r.value[1].safe)

(***************************************************************************)
(* Inputs of the SDK                                                       *)
(***************************************************************************)
ApiKeys == {<<>>, <<"p", "g">>, <<"s", "k", "_", "1">>, <<"p", "g", "_", "1">>}

\* (chain_id, guardrail_id) given at construction
Configs == {[chain_id |-> DEFAULT_CHAIN_ID, guardrail_id |-> None],
            [chain_id |-> 8453, guardrail_id |-> Some("g_default")]}

ValidateArgs ==
    {Args("0xA", "0xB", "0xa9059cbb", "0", None, None),
     Args("0xA", "0xB", "0xa9059cbb", "0", Some(""), Some(0)),
     Args("0xA", "0xC", "0x", "1000", Some("g_call"), Some(1))}

HelperArgs ==
    {Args("0xA", "0xB", "0xa9059cbb", "0", None, None),
     Args("0xA", "0xC", "0x", "1000", None, None)}

Wallets == {"0xA"}
ValidationIds == {"val_1"}

Object(fields) == fields @@ EmptyObject

Results == {"PASS", "FAIL", "PENDING"}

Checks1 == <<Check("daily_limit", FALSE, "over the limit", "critical")>>

VerdictObject(result, safe, reason) ==
    Object([validationId |-> JStr("val_1"), result |-> JStr(result),
            reason |-> JStr(reason), evidenceUri |-> JStr("ipfs://e"),
            safe |-> JBool(safe), chainId |-> JInt(8453)])

\* every combination of result and safe, with and without check detail
VerdictBodies ==
    {Body(TRUE, "object", VerdictObject(r, sf, d.reason), d.checks) :
        r \in Results, sf \in BOOLEAN,
        d \in {[reason |-> "ok", checks |-> <<>>],
               [reason |-> "exceeds daily limit", checks |-> Checks1]}}

MalformedVerdictBodies ==
    {Body(TRUE, "object",
          [VerdictObject("FAIL", FALSE, "no") EXCEPT !["safe"] = JAbsent], <<>>),
     Body(TRUE, "object",
          [VerdictObject("FAIL", FALSE, "no") EXCEPT !["safe"] = JStr("maybe")],
          <<>>),
     Body(TRUE, "object", VerdictObject("MAYBE", TRUE, "no"), <<>>),
     Body(TRUE, "object",
          [VerdictObject("PASS", TRUE, "ok") EXCEPT !["validationId"] = JAbsent],
          <<>>),
     Body(TRUE, "object",
          [VerdictObject("PASS", TRUE, "ok") EXCEPT !["reason"] = JNull], <<>>),
     Body(TRUE, "object", VerdictObject("PASS", TRUE, "ok"),
          <<Check("daily_limit", TRUE, "fine", "fatal")>>)}

ErrorBodies ==
    {Body(TRUE, "object", Object([error |-> e, message |-> m]), <<>>) :
        e \in {JAbsent, JNull, JStr(""), JStr("not found")},
        m \in {JAbsent, JStr("oops")}}

\* bodies any endpoint may answer with: undecodable, a JSON array, errors
GenericBodies ==
    {Body(FALSE, "object", EmptyObject, <<>>),
     Body(TRUE, "array", EmptyObject, <<>>)} \cup ErrorBodies

AgentObject ==
    Object([wallet |-> JStr("0xa"), isRegistered |-> JBool(TRUE),
            verificationStatus |-> JStr("verified"),
            verificationMessage |-> JStr("ok"), trustScore |-> JInt(90),
            tier |-> JStr("gold"), tierEmoji |-> JStr("*"),
            tierName |-> JStr("Gold"), stats |-> JObj(TRUE),
            registration |-> JNull, recommendation |-> JStr("trust")])

AgentBodies ==
    {Body(TRUE, "object", AgentObject, <<>>),
     Body(TRUE, "object", [AgentObject EXCEPT !["tier"] = JStr("platinum")],
          <<>>),
     Body(TRUE, "object", [AgentObject EXCEPT !["stats"] = JObj(FALSE)], <<>>)}

EvidenceObject ==
    Object([validationId |-> JStr("val_1"), timestamp |-> JStr("t0"),
            chainId |-> JInt(8453), transaction |-> JObj(TRUE),
            result |-> JObj(TRUE), agent |-> JObj(TRUE), proof |-> JObj(TRUE)])

EvidenceBodies ==
    {Body(TRUE, "object", EvidenceObject, <<>>),
     Body(TRUE, "object", [EvidenceObject EXCEPT !["proof"] = JAbsent], <<>>)}

UsageObject ==
    Object([wallet |-> JStr("0xa"), tier |-> JStr("free"),
            validations_used |-> JInt(1), validations_limit |-> JInt(100),
            daily_spent_wei |-> JStr("0")])

UsageBodies ==
    {Body(TRUE, "object", UsageObject, <<>>),
     Body(TRUE, "object",
          [UsageObject EXCEPT !["validations_used"] = JStr("one")], <<>>)}

OpBodies(op) ==
    CASE op = "validate" -> VerdictBodies \cup MalformedVerdictBodies
      [] op = "check_agent" -> AgentBodies
      [] op = "get_evidence" -> EvidenceBodies
      [] op = "get_usage" -> UsageBodies

\* what the transport call can produce for one request of an endpoint
Transports(op) ==
    {TimeoutException, RequestError("connection refused")}
    \cup {Response(200, b) : b \in OpBodies(op)}
    \cup {Response(st, b) : st \in {200, 404, 500},
                            b \in GenericBodies \ ErrorBodies}
    \cup {Response(st, b) : st \in {404, 500}, b \in ErrorBodies}
    \cup {Response(200, Body(TRUE, "object",
                             Object([error |-> JStr("not found")]), <<>>)),
          Response(201, CHOOSE b \in OpBodies(op) : TRUE),
          Response(404, CHOOSE b \in OpBodies(op) : TRUE)}

ValidateTransports == Transports("validate")
CheckAgentTransports == Transports("check_agent")
GetEvidenceTransports == Transports("get_evidence")
GetUsageTransports == Transports("get_usage")

NoTransport == [kind |-> "none", msg |-> "", status |-> 0, body |-> NoBody]

Call(op, kind, api_key, a, param) ==
    [op |-> op, kind |-> kind, api_key |-> api_key, args |-> a,
     param |-> param]

(***************************************************************************)
(* signer_service/main.py: values of the /execute handler                  *)
(***************************************************************************)
\* request.json: whether it is a JSON object, and its keys (None: absent)
RequestBody(object, to, data, value, guardrailId) ==
    [object |-> object, to |-> to, data |-> data, value |-> value,
     guardrailId |-> guardrailId]

NoRequestBody == RequestBody(FALSE, None, None, None, None)

\* the HTTP response of /execute; json is FALSE for the framework's own
\* error page (an exception outside the handler's try)
HttpResponse(status, json, success, error, hash, v) ==
    [status |-> status, json |-> json, success |-> success, error |-> error,
     txHash |-> hash, validation |-> v]

NoResponse == HttpResponse(0, FALSE, FALSE, "", None, None)

(***************************************************************************)

(* The SDK as a state machine: one action per public operation             *)
(***************************************************************************)
\* the part of the state the service owns; the SDK actions leave it alone
ServiceIdle ==
    /\ pc = "Idle"
    /\ body = NoRequestBody
    /\ validated = None
    /\ validation = None
    /\ tx = None
    /\ txHash = None
    /\ chain = <<>>
    /\ failedAt = "none"
    /\ nValidate = 0
    /\ nSign = 0
    /\ nBroadcast = 0
    /\ response = NoResponse
    /\ served = 0

ClientIdle ==
    /\ pg = NoClient
    /\ sessionsCreated = 0
    /\ netCalls = 0
    /\ call = Call("none", "sync", <<>>, NoArgs, "")
    /\ sent = <<>>
    /\ transport = NoTransport
    /\ outcome = NoOutcome
    /\ helperSession = "none"

Init == ClientIdle /\ ServiceIdle

\* pg = ProofGate(api_key, ...) or pg = AsyncProofGate(api_key, ...)
Construct ==
    /\ pg.session = "none"
    /\ \E kind \in {"sync", "async"}, key \in ApiKeys, cfg \in Configs :
         LET r == IF kind = "sync"
                  THEN ProofGate_init(key, cfg.chain_id, cfg.guardrail_id)
                  ELSE AsyncProofGate_init(key, cfg.chain_id, cfg.guardrail_id)
         IN /\ pg' = r.client
            /\ sessionsCreated' = sessionsCreated + r.sessions
            /\ call' = Call("init", kind, key, NoArgs, "")
            /\ outcome' = IF r.raised # None THEN Raise(r.raised[1])
                          ELSE [kind |-> "return", value |-> None, err |-> None]
    /\ sent' = <<>>
    /\ transport' = NoTransport
    /\ UNCHANGED <<netCalls, helperSession>>
    /\ UNCHANGED serviceVars

\* faulty variant: the session is left as it was
Client_close_leaking(session) == session

\* close(), also what __exit__ / __aexit__ call
Client_close(session) == "closed"

\* __exit__(*args) / __aexit__(*args): close, whatever the exception info
\* is; the None they return lets an exception of the body propagate
ProofGate_exit(session, exc) == Client_close(session)

AsyncProofGate_aexit(session, exc) == Client_close(session)

Close ==
    /\ pg.session = "open"
    /\ pg' = [pg EXCEPT !.session = Client_close(pg.session)]
    /\ call' = Call("close", pg.kind, pg.api_key, NoArgs, "")
    /\ outcome' = [kind |-> "return", value |-> None, err |-> None]
    /\ sent' = <<>>
    /\ transport' = NoTransport
    /\ UNCHANGED <<sessionsCreated, netCalls, helperSession>>
    /\ UNCHANGED serviceVars

\* the end of a `with ProofGate(...) as pg:` / `async with` scope around the
\* calls made so far: the body returned, or its last call raised and the
\* exception leaves the scope
ExitScope ==
    /\ pg.session = "open"
    /\ \E raised \in BOOLEAN :
         /\ raised => (outcome.kind = "raise" /\ call.op # "init")
         /\ call' = Call("__exit__", pg.kind, pg.api_key, NoArgs,
                         IF raised THEN "raised" ELSE "returned")
         /\ outcome' = IF raised THEN outcome
                       ELSE [kind |-> "return", value |-> None, err |-> None]
         /\ pg' = [pg EXCEPT !.session =
                      IF pg.kind = "sync"
                      THEN ProofGate_exit(pg.session,
                                          IF raised THEN outcome.err ELSE None)
                      ELSE AsyncProofGate_aexit(pg.session,
                                          IF raised THEN outcome.err ELSE None)]
    /\ sent' = <<>>
    /\ transport' = NoTransport
    /\ UNCHANGED <<sessionsCreated, netCalls, helperSession>>
    /\ UNCHANGED serviceVars

\* a method call on the open client: one request req, answered by t
Invoke(op, a, param, req, t, result) ==
    /\ pg.session = "open"
    /\ netCalls < MaxCalls
    /\ call' = Call(op, pg.kind, pg.api_key, a, param)
    /\ sent' = (IF pg.kind = "sync" THEN ProofGate_request_sends(req, t)
                ELSE AsyncProofGate_request_sends(req, t))
    /\ transport' = t
    /\ outcome' = result
    /\ netCalls' = netCalls + Len(sent')
    /\ UNCHANGED <<pg, sessionsCreated, helperSession>>
    /\ UNCHANGED serviceVars

Validate ==
    \E a \in ValidateArgs, t \in ValidateTransports :
        Invoke("validate", a, "",
               IF pg.kind = "sync" THEN validate_request(pg, a)
               ELSE AsyncProofGate_validate_request(pg, a),
               t,
               IF pg.kind = "sync" THEN ProofGate_validate(t)
               ELSE AsyncProofGate_validate(t))

ValidateOrThrow ==
    \E a \in ValidateArgs, t \in ValidateTransports :
        Invoke("validate_or_throw", a, "",
               IF pg.kind = "sync" THEN validate_request(pg, a)
               ELSE AsyncProofGate_validate_request(pg, a),
               t,
               IF pg.kind = "sync" THEN ProofGate_validate_or_throw(t)
               ELSE AsyncProofGate_validate_or_throw(t))

CheckAgent ==
    \E w \in Wallets, t \in CheckAgentTransports :
        Invoke("check_agent", NoArgs, w,
               IF pg.kind = "sync" THEN check_agent_request(w)
               ELSE AsyncProofGate_check_agent_request(w),
               t,
               IF pg.kind = "sync" THEN ProofGate_check_agent(t)
               ELSE AsyncProofGate_check_agent(t))

GetEvidence ==
    \E id \in ValidationIds, t \in GetEvidenceTransports :
        Invoke("get_evidence", NoArgs, id,
               IF pg.kind = "sync" THEN get_evidence_request(id)
               ELSE AsyncProofGate_get_evidence_request(id),
               t,
               IF pg.kind = "sync" THEN ProofGate_get_evidence(t)
               ELSE AsyncProofGate_get_evidence(t))

GetUsage ==
    \E w \in Wallets, t \in GetUsageTransports :
        Invoke("get_usage", NoArgs, w,
               IF pg.kind = "sync" THEN get_usage_request(w)
               ELSE AsyncProofGate_get_usage_request(w),
               t,
               IF pg.kind = "sync" THEN ProofGate_get_usage(t)
               ELSE AsyncProofGate_get_usage(t))

\* any method on a closed client: httpx refuses to send (RuntimeError, which
\* is no httpx.RequestError, so _request lets it through)
CallClosed ==
    /\ pg.session = "closed"
    /\ \E op \in {"validate", "validate_or_throw", "check_agent",
                  "get_evidence", "get_usage"} :
         call' = Call(op, pg.kind, pg.api_key, NoArgs, "")
    /\ sent' = <<>>
    /\ transport' = NoTransport
    /\ outcome' = Raise(ForeignError("RuntimeError"))
    /\ UNCHANGED <<pg, sessionsCreated, netCalls, helperSession>>
    /\ UNCHANGED serviceVars

\* is_transaction_safe(api_key, ...): with ProofGate(api_key) as pg: ...
IsTransactionSafe ==
    \E key \in ApiKeys, a \in HelperArgs :
        LET r == ProofGate_init(key, DEFAULT_CHAIN_ID, None) IN
        /\ call' = Call("is_transaction_safe", "sync", key, a, "")
        /\ IF r.raised # None
           THEN /\ outcome' = Raise(r.raised[1])
                /\ sent' = <<>>
                /\ transport' = NoTransport
                /\ UNCHANGED <<netCalls, sessionsCreated, helperSession>>
           ELSE /\ netCalls < MaxCalls
                /\ \E t \in ValidateTransports :
                     /\ transport' = t
                     /\ outcome' = is_transaction_safe_result(t)
                     /\ sent' = ProofGate_request_sends(
                                    validate_request(r.client, a), t)
                /\ netCalls' = netCalls + Len(sent')
                /\ sessionsCreated' = sessionsCreated + r.sessions
                /\ helperSession' = Client_close(r.client.session)
        /\ UNCHANGED pg
        /\ UNCHANGED serviceVars

Next ==
    \/ Construct
    \/ Close
    \/ ExitScope
    \/ Validate
    \/ ValidateOrThrow
    \/ CheckAgent
    \/ GetEvidence
    \/ GetUsage
    \/ CallClosed
    \/ IsTransactionSafe

Spec == Init /\ [][Next]_vars

(***************************************************************************)
(* Properties of the SDK (checked under Spec)                              *)
(***************************************************************************)
ClientMethods == {"validate", "validate_or_throw", "check_agent",
                  "get_evidence", "get_usage"}

\* the last call was answered 2xx with a well-formed verdict
WellFormedVerdict ==
    /\ transport.kind = "response"
    /\ transport.status \in 200..299
    /\ transport.body \in VerdictBodies

WireSafe == transport.body.f["safe"].b
WireResult == transport.body.f["result"].s
WireReason == transport.body.f["reason"].s
WireChecks == transport.body.checks

\* what validate of the calling client's class yields for the same exchange
UnderlyingValidate ==
    IF call.kind = "sync" THEN ProofGate_validate(transport)
    ELSE AsyncProofGate_validate(transport)

\* C1: validate_or_throw (sync and async) returns normally iff the
\* underlying validate yields safe=true, and then returns that response
\* unchanged; on an unsafe verdict it raises ProofGateError VALIDATION_FAILED
\* whose message is the verdict's reason and whose validation_result has the
\* verdict's reason and checks.
C1_ValidateOrThrow ==
    (call.op = "validate_or_throw" /\ transport.kind # "none") =>
        LET v == UnderlyingValidate IN
        /\ (outcome.kind = "return") <=> (v.kind = "return" /\ v.value[1].safe)
        /\ (v.kind = "return" /\ v.value[1].safe) => outcome = v
        /\ (v.kind = "return" /\ ~v.value[1].safe) =>
              /\ outcome.kind = "raise"
              /\ outcome.err[1].family = "ProofGateError"
              /\ outcome.err[1].code = "VALIDATION_FAILED"
              /\ outcome.err[1].message = JStr(v.value[1].reason)
              /\ outcome.err[1].validation_result # None
              /\ outcome.err[1].validation_result[1].reason = v.value[1].reason
              /\ outcome.err[1].validation_result[1].checks = v.value[1].checks
        /\ WellFormedVerdict =>
              /\ v.kind = "return"
              /\ v.value[1].safe = WireSafe
              /\ v.value[1].reason = WireReason
              /\ v.value[1].checks = WireChecks

C1_Witness ==
    /\ call.op = "validate_or_throw"
    /\ call.kind = "async"
    /\ WellFormedVerdict
    /\ ~WireSafe
    /\ WireChecks # <<>>
    /\ outcome.kind = "raise"
    /\ outcome.err[1].code = "VALIDATION_FAILED"
    /\ outcome.err[1].validation_result[1].checks = WireChecks

KeyAccepted(key) ==
    /\ Len(key) >= 3
    /\ key[1] = "p"
    /\ key[2] = "g"
    /\ key[3] = "_"

\* C2: a constructor call (ProofGate, AsyncProofGate, and the one inside
\* is_transaction_safe) with an empty key or a key not starting with "pg_"
\* raises MISSING_API_KEY / INVALID_API_KEY in the same step, creates no HTTP
\* session, sends nothing, and leaves no client on which to issue a request.
C2_BadKeyFailsFast ==
    [][(/\ call'.op \in {"init", "is_transaction_safe"}
        /\ ~KeyAccepted(call'.api_key)) =>
           /\ outcome'.kind = "raise"
           /\ outcome'.err[1].family = "ProofGateError"
           /\ outcome'.err[1].code =
                 (IF call'.api_key = <<>> THEN "MISSING_API_KEY"
                  ELSE "INVALID_API_KEY")
           /\ sessionsCreated' = sessionsCreated
           /\ netCalls' = netCalls
           /\ sent' = <<>>
           /\ (call'.op = "init" => pg'.session = "none")]_vars

C2_Witness ==
    /\ call.op = "init"
    /\ call.api_key = <<"s", "k", "_", "1">>
    /\ outcome.kind = "raise"
    /\ outcome.err[1].code = "INVALID_API_KEY"
    /\ pg.session = "none"
    /\ sessionsCreated = 0

\* C3: validate returns the verdict as a normal ValidateResponse whenever
\* the exchange ends 2xx with a well-formed verdict, whatever its safe and
\* result are; an unsafe verdict never makes validate raise.
C3_ValidateReturnsVerdict ==
    (call.op = "validate" /\ WellFormedVerdict) =>
        /\ outcome.kind = "return"
        /\ outcome.value[1].safe = WireSafe
        /\ outcome.value[1].result = WireResult
        /\ outcome.value[1].reason = WireReason
        /\ outcome.value[1].checks = WireChecks

C3_Witness ==
    /\ call.op = "validate"
    /\ call.kind = "sync"
    /\ WellFormedVerdict
    /\ ~WireSafe
    /\ WireResult = "PENDING"
    /\ outcome.kind = "return"
    /\ outcome.value[1].safe = FALSE

\* C4: for every client method (and the helper), a transport timeout
\* surfaces as ProofGateError TIMEOUT, never NETWORK_ERROR, and every other
\* transport failure as ProofGateError NETWORK_ERROR with its message.
C4_TimeoutIsNotNetworkError ==
    (call.op \in ClientMethods \cup {"is_transaction_safe"}) =>
        /\ transport.kind = "timeout" =>
              /\ outcome.kind = "raise"
              /\ outcome.err[1].family = "ProofGateError"
              /\ outcome.err[1].code = "TIMEOUT"
        /\ transport.kind = "network" =>
              /\ outcome.kind = "raise"
              /\ outcome.err[1].family = "ProofGateError"
              /\ outcome.err[1].code = "NETWORK_ERROR"
              /\ outcome.err[1].message = JStr(transport.msg)

C4_Witness ==
    /\ call.op = "check_agent"
    /\ call.kind = "sync"
    /\ transport.kind = "timeout"
    /\ outcome.kind = "raise"
    /\ outcome.err[1].code = "TIMEOUT"

\* the last call was answered non-2xx with a JSON object
ErrorResponse ==
    /\ call.op \in ClientMethods \cup {"is_transaction_safe"}
    /\ transport.kind = "response"
    /\ transport.status \notin 200..299
    /\ transport.body.parse
    /\ transport.body.shape = "object"

WireError == transport.body.f["error"]
WireMessage == transport.body.f["message"]

NonEmpty(j) == j.t = "str" /\ j.s # ""

\* the body has the field, with a string value
HasString(j) == j.t = "str"

\* C5 as stated: a non-2xx response whose JSON body contains an error or
\* message field yields API_ERROR whose message is that field's value (error
\* before message) and whose status_code is the HTTP status.
C5_Original ==
    (ErrorResponse /\ (HasString(WireError) \/ HasString(WireMessage))) =>
        /\ outcome.kind = "raise"
        /\ outcome.err[1].code = "API_ERROR"
        /\ outcome.err[1].status_code = Some(transport.status)
        /\ outcome.err[1].message =
              (IF HasString(WireError) THEN WireError ELSE WireMessage)

\* C5 amended: a non-2xx response with a JSON object body yields API_ERROR
\* with status_code the HTTP status and message the value of error when that
\* is non-empty, else the value of message when that is non-empty, else
\* "HTTP <status>".
C5_ApiErrorMessage ==
    ErrorResponse =>
        /\ outcome.kind = "raise"
        /\ outcome.err[1].family = "ProofGateError"
        /\ outcome.err[1].code = "API_ERROR"
        /\ outcome.err[1].status_code = Some(transport.status)
        /\ outcome.err[1].message =
              (IF NonEmpty(WireError) THEN WireError
               ELSE IF NonEmpty(WireMessage) THEN WireMessage
               ELSE JStr("HTTP " \o ToString(transport.status)))

C5_Witness ==
    /\ call.op = "get_evidence"
    /\ transport.kind = "response"
    /\ transport.status = 404
    /\ WireError = JStr("not found")
    /\ WireMessage = JStr("oops")
    /\ outcome.kind = "raise"
    /\ outcome.err[1].code = "API_ERROR"
    /\ outcome.err[1].message = JStr("not found")
    /\ outcome.err[1].status_code = Some(404)

\* C6: a 2xx response whose body cannot be decoded or fails schema
\* validation yields an error of the ProofGateError family, so every failure
\* a client method raises is a ProofGateError.
C6_OneErrorFamily ==
    (/\ call.op \in ClientMethods
     /\ transport.kind = "response"
     /\ transport.status \in 200..299
     /\ outcome.kind = "raise") =>
        outcome.err[1].family = "ProofGateError"

\* C7: the client passes through the server's safe and result unchanged for
\* every combination of the two, and validate_or_throw and
\* is_transaction_safe branch on safe alone.
C7_SafePassedThrough ==
    WellFormedVerdict =>
        /\ call.op = "validate" =>
              /\ outcome.kind = "return"
              /\ outcome.value[1].safe = WireSafe
              /\ outcome.value[1].result = WireResult
        /\ call.op = "validate_or_throw" =>
              /\ (outcome.kind = "return") <=> WireSafe
              /\ outcome.kind = "return" =>
                    /\ outcome.value[1].safe = WireSafe
                    /\ outcome.value[1].result = WireResult
              /\ outcome.kind = "raise" =>
                    /\ outcome.err[1].validation_result[1].safe = WireSafe
                    /\ outcome.err[1].validation_result[1].result = WireResult
        /\ call.op = "is_transaction_safe" =>
              /\ outcome.kind = "return"
              /\ outcome.value[1] = WireSafe

C7_Witness ==
    /\ call.op = "validate"
    /\ WellFormedVerdict
    /\ WireResult = "PASS"
    /\ ~WireSafe
    /\ outcome.kind = "return"
    /\ outcome.value[1].result = "PASS"
    /\ outcome.value[1].safe = FALSE

\* C8: is_transaction_safe returns the verdict's safe field whenever the
\* exchange ends 2xx with a well-formed verdict; for safe=false it returns
\* false and does not raise.
C8_HelperReturnsSafe ==
    (call.op = "is_transaction_safe" /\ WellFormedVerdict) =>
        outcome = Return(WireSafe)

C8_Witness ==
    /\ call.op = "is_transaction_safe"
    /\ WellFormedVerdict
    /\ ~WireSafe
    /\ WireResult = "FAIL"
    /\ outcome = Return(FALSE)

\* the JSON body of the POST the last call sent
SentBody == sent[1].json[1]

ValidateMethods == {"validate", "validate_or_throw"}

\* C11: the POST /validate body carries the call's guardrail_id / chain_id
\* whenever the call supplies one, whatever its value (an empty guardrail id
\* and chain id 0 included), and the value given at construction exactly
\* when the call omits the argument.
C11_DefaultOnlyWhenOmitted ==
    (call.op \in ValidateMethods /\ sent # <<>>) =>
        /\ SentBody.guardrailId =
              (IF call.args.guardrail_id = None THEN pg.guardrail_id
               ELSE call.args.guardrail_id)
        /\ SentBody.chainId =
              (IF call.args.chain_id = None THEN Some(pg.chain_id)
               ELSE call.args.chain_id)

\* C12: leaving a with / async with scope closes the client's session,
\* whether the body returned or raised, and is_transaction_safe has closed
\* the session it created by the time it returns or raises; no session is
\* open once its scope has ended.
C12_ScopeReleasesSession ==
    /\ call.op = "__exit__" => pg.session = "closed"
    /\ helperSession # "open"
    /\ (call.op = "is_transaction_safe" /\ KeyAccepted(call.api_key)) =>
          helperSession = "closed"
    /\ (call.op = "is_transaction_safe" /\ ~KeyAccepted(call.api_key)) =>
          outcome.kind = "raise"

C12_Witness ==
    /\ call.op = "__exit__"
    /\ call.kind = "async"
    /\ call.param = "raised"
    /\ outcome.kind = "raise"
    /\ outcome.err[1].code = "TIMEOUT"
    /\ pg.session = "closed"
    /\ helperSession = "closed"

\* what each class yields for operation op answered by t
SyncResult(op, t) ==
    CASE op = "validate" -> ProofGate_validate(t)
      [] op = "validate_or_throw" -> ProofGate_validate_or_throw(t)
      [] op = "check_agent" -> ProofGate_check_agent(t)
      [] op = "get_evidence" -> ProofGate_get_evidence(t)
      [] op = "get_usage" -> ProofGate_get_usage(t)

AsyncResult(op, t) ==
    CASE op = "validate" -> AsyncProofGate_validate(t)
      [] op = "validate_or_throw" -> AsyncProofGate_validate_or_throw(t)
      [] op = "check_agent" -> AsyncProofGate_check_agent(t)
      [] op = "get_evidence" -> AsyncProofGate_get_evidence(t)
      [] op = "get_usage" -> AsyncProofGate_get_usage(t)

\* what each class sends for operation op of client self
SyncSends(op, self, a, param, t) ==
    ProofGate_request_sends(
        CASE op \in ValidateMethods -> validate_request(self, a)
          [] op = "check_agent" -> check_agent_request(param)
          [] op = "get_evidence" -> get_evidence_request(param)
          [] op = "get_usage" -> get_usage_request(param),
        t)

AsyncSends(op, self, a, param, t) ==
    AsyncProofGate_request_sends(
        CASE op \in ValidateMethods -> AsyncProofGate_validate_request(self, a)
          [] op = "check_agent" -> AsyncProofGate_check_agent_request(param)
          [] op = "get_evidence" -> AsyncProofGate_get_evidence_request(param)
          [] op = "get_usage" -> AsyncProofGate_get_usage_request(param),
        t)

\* C13: for the same construction arguments, method call and transport
\* outcome, ProofGate and AsyncProofGate send the same requests and produce
\* the same result or the same error, and the client that made the call
\* behaved as both do.
C13_SyncAsyncEquivalent ==
    (call.op \in ClientMethods /\ transport.kind # "none") =>
        /\ SyncResult(call.op, transport) = AsyncResult(call.op, transport)
        /\ outcome = SyncResult(call.op, transport)
        /\ outcome = AsyncResult(call.op, transport)
        /\ SyncSends(call.op, pg, call.args, call.param, transport)
              = AsyncSends(call.op, pg, call.args, call.param, transport)
        /\ sent = SyncSends(call.op, pg, call.args, call.param, transport)
        /\ sent = AsyncSends(call.op, pg, call.args, call.param, transport)

C13_Witness ==
    /\ call.op = "get_usage"
    /\ call.kind = "async"
    /\ transport.kind = "response"
    /\ transport.status = 500
    /\ WireError = JStr("not found")
    /\ outcome.kind = "raise"
    /\ outcome.err[1].code = "API_ERROR"
    /\ outcome.err[1].status_code = Some(500)
    /\ sent = <<HttpRequest("GET", "/validate?wallet=0xA", None)>>

\* the exchange of the last call failed: timeout, transport failure, non-2xx
\* status or a body that cannot be decoded
ExchangeFailed ==
    \/ transport.kind \in {"timeout", "network"}
    \/ /\ transport.kind = "response"
       /\ (~is_success(transport.status) \/ ~transport.body.parse)

\* C14: a client method call (and the helper) puts exactly one request on
\* the wire, a POST /validate for validate and validate_or_throw and a GET
\* for the three reads, and a failed exchange is surfaced as an error with
\* no second request.
C14_SingleRequestNoRetry ==
    /\ [](call.op \in ClientMethods \cup {"is_transaction_safe"} =>
            /\ Len(sent) <= 1
            /\ transport.kind # "none" =>
                  /\ Len(sent) = 1
                  /\ sent[1].method =
                        (IF call.op \in ValidateMethods
                                       \cup {"is_transaction_safe"}
                         THEN "POST" ELSE "GET")
                  /\ sent[1].path =
                        (CASE call.op = "check_agent" ->
                                "/agents/check?wallet=" \o call.param
                           [] call.op = "get_evidence" ->
                                "/evidence/" \o call.param
                           [] call.op = "get_usage" ->
                                "/validate?wallet=" \o call.param
                           [] OTHER -> "/validate")
            /\ ExchangeFailed => (outcome.kind = "raise" /\ Len(sent) = 1))
    /\ [][/\ netCalls' = netCalls + Len(sent')
          /\ netCalls' <= netCalls + 1]_vars

C14_Witness ==
    /\ call.op = "validate"
    /\ transport.kind = "timeout"
    /\ outcome.kind = "raise"
    /\ outcome.err[1].code = "TIMEOUT"
    /\ Len(sent) = 1
    /\ netCalls = 1

(***************************************************************************)
(* signer_service/main.py: the /execute handler                            *)
(***************************************************************************)
SERVICE_CHAIN_ID == 8453
GAS == 200000
\* the exponent of the unit "ether" in w3.to_wei(value, "ether")
ETHER_DECIMALS == 18

\* account.address, the address derived from PRIVATE_KEY
account_address == "0xS"

\* proofgate = ProofGate(api_key=PROOFGATE_API_KEY, chain_id=8453)
proofgate == ProofGate_init(<<"p", "g", "_", "1">>, SERVICE_CHAIN_ID, None).client

\* data.get("to"), data.get("data", "0x"), data.get("value", "0"),
\* data.get("guardrailId")
to_address(b) == b.to
tx_data(b) == IF b.data = None THEN "0x" ELSE b.data[1]
value_of(b) == IF b.value = None THEN <<"0">> ELSE b.value[1]
guardrail_id_of(b) == b.guardrailId

\* the arguments of proofgate.validate(...) in the handler
execute_validate_args(b) ==
    Args(account_address, to_address(b), tx_data(b), value_of(b),
         guardrail_id_of(b), None)

\* str(e) of the exception the handler caught: ProofGateError.__str__ is
\* "[code] message"; any other exception is named by its class here
Str(e) ==
    IF e.family = "ProofGateError"
    THEN "[" \o e.code \o "] " \o e.message.s
    ELSE e.family

\* jsonify of a body holding validation.checks: the elements are
\* ValidationCheck objects, which the JSON provider cannot serialise, so it
\* raises TypeError unless the list is empty
jsonify_ok(checks) == checks = <<>>

ValidationSummary(v) ==
    [result |-> v.result, reason |-> v.reason, checks |-> v.checks]

\* faulty variant: the handler without its "if not validation.safe" branch
execute_after_validate_noSafeCheck(r) ==
    IF r.kind = "raise"
    THEN [pc |-> "Failed", failedAt |-> "validate",
          response |-> HttpResponse(500, TRUE, FALSE, Str(r.err[1]), None, None)]
    ELSE [pc |-> "Signing", failedAt |-> "none", response |-> NoResponse]

\* where the handler stands once proofgate.validate has returned or raised
\* (r is its outcome): the except branch, the 400 branch, or on to signing
execute_after_validate(r) ==
    IF r.kind = "raise"
    THEN [pc |-> "Failed", failedAt |-> "validate",
          response |-> HttpResponse(500, TRUE, FALSE, Str(r.err[1]), None, None)]
    ELSE IF ~r.value[1].safe
    THEN IF jsonify_ok(r.value[1].checks)
         THEN [pc |-> "Blocked", failedAt |-> "none",
               response |-> HttpResponse(400, TRUE, FALSE,
                   "Transaction blocked by ProofGate: " \o r.value[1].reason,
                   None, Some(ValidationSummary(r.value[1])))]
         ELSE [pc |-> "Failed", failedAt |-> "respond",
               response |-> HttpResponse(500, TRUE, FALSE, "TypeError",
                                         None, None)]
    ELSE [pc |-> "Signing", failedAt |-> "none", response |-> NoResponse]

\* Web3.to_checksum_address: the checksummed form of a 0x address, an
\* exception for anything else (None included)
ChecksumOf ==
    [a \in {"0xB", "0xb", "0xC", "0xc"} |->
        IF a \in {"0xB", "0xb"} THEN "0xB" ELSE "0xC"]

is_address(to) == to # None /\ to[1] \in DOMAIN ChecksumOf
to_checksum_address(to) == ChecksumOf[to[1]]

DecimalDigits == {"0", "1", "2", "3", "4", "5", "6", "7", "8", "9"}

is_decimal(v) == Len(v) > 0 /\ \A i \in 1..Len(v) : v[i] \in DecimalDigits

Zeros(n) == [i \in 1..n |-> "0"]

\* w3.to_wei(value, "ether") on a string of digits: value * 10^18
to_wei_ether(v) == v \o Zeros(ETHER_DECIMALS)

\* w3.to_wei(value, "ether") if value != "0" else 0
tx_value(v) == IF v # <<"0">> THEN to_wei_ether(v) ELSE <<"0">>

\* calldata the signer accepts: hex after 0x
is_hex(d) == d \in {"0x", "0xa9059cbb"}

\* the tx dict of the handler, then account.sign_transaction(tx); rpc is the
\* chain node's answer to gas_price / get_transaction_count. The dict is
\* built key by key, so the first failing key decides the exception.
build_and_sign(b, rpc, nonce) ==
    IF ~is_address(to_address(b))
    THEN [ok |-> FALSE, stage |-> "build", error |-> "ValueError", signed |-> None]
    ELSE IF value_of(b) # <<"0">> /\ ~is_decimal(value_of(b))
    THEN [ok |-> FALSE, stage |-> "build", error |-> "InvalidOperation",
          signed |-> None]
    ELSE IF rpc # "ok"
    THEN [ok |-> FALSE, stage |-> "build", error |-> "ConnectionError",
          signed |-> None]
    ELSE IF ~is_hex(tx_data(b))
    THEN [ok |-> FALSE, stage |-> "sign", error |-> "TypeError", signed |-> None]
    ELSE [ok |-> TRUE, stage |-> "sign", error |-> "",
          signed |-> Some([from |-> account_address,
                           to |-> to_checksum_address(to_address(b)),
                           data |-> tx_data(b),
                           value |-> tx_value(value_of(b)),
                           gas |-> GAS, gasPrice |-> 1, nonce |-> nonce,
                           chainId |-> SERVICE_CHAIN_ID])]

\* tx_hash.hex() of what send_raw_transaction returned
TxHashOf(signed) == "0xhash" \o ToString(signed.nonce)

\* the response after a successful broadcast: 200, unless jsonify raises
execute_after_broadcast(v, hash) ==
    IF jsonify_ok(v.checks)
    THEN [pc |-> "Sent", failedAt |-> "none",
          response |-> HttpResponse(200, TRUE, TRUE, "", Some(hash),
                                    Some(ValidationSummary(v)))]
    ELSE [pc |-> "Failed", failedAt |-> "respond",
          response |-> HttpResponse(500, TRUE, FALSE, "TypeError", None, None)]

(***************************************************************************)
(* Inputs of the service                                                   *)
(***************************************************************************)
RequestBodies ==
    {RequestBody(FALSE, None, None, None, None),
     RequestBody(TRUE, Some("0xB"), Some("0xa9059cbb"), Some(<<"0">>), None),
     RequestBody(TRUE, Some("0xb"), None, Some(<<"1">>), Some("g_req")),
     RequestBody(TRUE, Some("0xC"), Some("0x"), None, None),
     RequestBody(TRUE, Some("0xC"), Some("0x"), Some(<<"a", "b", "c">>), None),
     RequestBody(TRUE, Some("bad"), Some("0x"), Some(<<"0">>), None),
     RequestBody(TRUE, None, Some("0x"), Some(<<"0">>), None),
     RequestBody(TRUE, Some("0xB"), Some("xyz"), Some(<<"0">>), None)}

RpcAnswers == {"ok", "error"}

(***************************************************************************)
(* The /execute handler as a state machine: one action per statement group *)
(***************************************************************************)
Terminal == {"Blocked", "Sent", "Failed", "Aborted"}

\* a request arrives; lines 64-73 read its body outside the try, so a body
\* that is no JSON object ends in the framework's 500
Receive ==
    /\ pc \in {"Idle"} \cup Terminal
    /\ served < MaxServed
    /\ served' = served + 1
    /\ \E b \in RequestBodies :
         /\ body' = b
         /\ IF b.object
            THEN /\ pc' = "Received"
                 /\ failedAt' = "none"
                 /\ response' = NoResponse
            ELSE /\ pc' = "Aborted"
                 /\ failedAt' = "parse"
                 /\ response' = HttpResponse(500, FALSE, FALSE, "", None, None)
    /\ validated' = None
    /\ validation' = None
    /\ tx' = None
    /\ txHash' = None
    /\ nValidate' = 0
    /\ nSign' = 0
    /\ nBroadcast' = 0
    /\ UNCHANGED chain
    /\ UNCHANGED clientVars

\* proofgate.validate(...) is called: the request goes out
StartValidate ==
    /\ pc = "Received"
    /\ pc' = "Validating"
    /\ validated' = validate_request(proofgate, execute_validate_args(body)).json
    /\ nValidate' = nValidate + 1
    /\ UNCHANGED <<body, validation, tx, txHash, chain, failedAt, nSign,
                   nBroadcast, response, served>>
    /\ UNCHANGED clientVars

\* proofgate.validate(...) returns or raises; the handler branches
FinishValidate ==
    /\ pc = "Validating"
    /\ \E t \in ValidateTransports :
         LET r == ProofGate_validate(t)
             n == execute_after_validate(r)
         IN /\ validation' = r.value
            /\ pc' = n.pc
            /\ failedAt' = n.failedAt
            /\ response' = n.response
    /\ UNCHANGED <<body, validated, tx, txHash, chain, nValidate, nSign,
                   nBroadcast, served>>
    /\ UNCHANGED clientVars

\* lines 112-123: build the tx and sign it
SignTx ==
    /\ pc = "Signing"
    /\ \E rpc \in RpcAnswers :
         LET r == build_and_sign(body, rpc, Len(chain)) IN
         /\ nSign' = IF r.stage = "sign" THEN nSign + 1 ELSE nSign
         /\ tx' = r.signed
         /\ IF r.ok
            THEN /\ pc' = "Broadcasting"
                 /\ UNCHANGED <<failedAt, response>>
            ELSE /\ pc' = "Failed"
                 /\ failedAt' = r.stage
                 /\ response' = HttpResponse(500, TRUE, FALSE, r.error, None, None)
    /\ UNCHANGED <<body, validated, validation, txHash, chain, nValidate,
                   nBroadcast, served>>
    /\ UNCHANGED clientVars

\* lines 124-137: send_raw_transaction, then the 200 response
Broadcast ==
    /\ pc = "Broadcasting"
    /\ nBroadcast' = nBroadcast + 1
    /\ \E rpc \in RpcAnswers :
         IF rpc = "ok"
         THEN LET n == execute_after_broadcast(validation[1], TxHashOf(tx[1]))
              IN /\ chain' = Append(chain, tx[1])
                 /\ txHash' = Some(TxHashOf(tx[1]))
                 /\ pc' = n.pc
                 /\ failedAt' = n.failedAt
                 /\ response' = n.response
         ELSE /\ pc' = "Failed"
              /\ failedAt' = "broadcast"
              /\ response' = HttpResponse(500, TRUE, FALSE, "ConnectionError",
                                          None, None)
              /\ UNCHANGED <<chain, txHash>>
    /\ UNCHANGED <<body, validated, validation, tx, nValidate, nSign, served>>
    /\ UNCHANGED clientVars

NextService ==
    \/ Receive
    \/ StartValidate
    \/ FinishValidate
    \/ SignTx
    \/ Broadcast

SpecService == Init /\ [][NextService]_vars

(***************************************************************************)
(* Properties of the signer service (checked under SpecService)            *)
(***************************************************************************)
\* the steps of one request: the linear sequence, its error exits, and the
\* arrival of the next request after a terminal state
ExecuteEdges ==
    {<<"Received", "Validating">>,
     <<"Validating", "Blocked">>, <<"Validating", "Signing">>,
     <<"Signing", "Broadcasting">>, <<"Broadcasting", "Sent">>,
     <<"Validating", "Failed">>, <<"Signing", "Failed">>,
     <<"Broadcasting", "Failed">>}
    \cup {<<p, q>> : p \in {"Idle"} \cup Terminal, q \in {"Received", "Aborted"}}

ValidatedSafe == validation # None /\ validation[1].safe

\* C9: each /execute request moves Received -> Validating -> {Blocked |
\* Signing -> Broadcasting -> Sent} (leaving only through an error response),
\* signing and broadcasting happen only after the request's own validate
\* call returned safe=true, and validate, sign and broadcast are each
\* attempted at most once per request.
C9_LinearNoRetry ==
    /\ [](/\ nValidate <= 1
          /\ nSign <= 1
          /\ nBroadcast <= 1
          /\ (\/ pc \in {"Signing", "Broadcasting", "Sent"}
              \/ nSign > 0
              \/ nBroadcast > 0
              \/ tx # None
              \/ txHash # None) => (nValidate = 1 /\ ValidatedSafe)
          /\ nBroadcast > 0 => nSign = 1)
    /\ [][/\ pc' # pc => <<pc, pc'>> \in ExecuteEdges
          /\ nValidate' # nValidate =>
                \/ pc = "Received" /\ pc' = "Validating"
                \/ pc' \in {"Received", "Aborted"} /\ nValidate' = 0
          /\ nSign' # nSign =>
                \/ pc = "Signing" /\ ValidatedSafe
                \/ pc' \in {"Received", "Aborted"} /\ nSign' = 0
          /\ nBroadcast' # nBroadcast =>
                \/ pc = "Broadcasting" /\ ValidatedSafe
                \/ pc' \in {"Received", "Aborted"} /\ nBroadcast' = 0
          /\ chain' # chain =>
                /\ pc = "Broadcasting"
                /\ ValidatedSafe
                /\ chain' = Append(chain, tx[1])]_vars

C9_Witness ==
    /\ pc = "Sent"
    /\ nValidate = 1
    /\ nSign = 1
    /\ nBroadcast = 1
    /\ ValidatedSafe
    /\ Len(chain) = 1
    /\ response.status = 200

\* C10: an unsafe verdict yields 400 with success:false and the
\* validation's result, reason and checks; a safe verdict followed by
\* successful signing and broadcasting yields 200 with success:true and the
\* txHash; an exception during signing or broadcasting yields 500 with
\* success:false and the error message.
C10_StatusByOutcome ==
    pc \in Terminal =>
        /\ (validation # None /\ ~validation[1].safe) =>
              /\ response.status = 400
              /\ response.json
              /\ ~response.success
              /\ response.validation = Some(ValidationSummary(validation[1]))
        /\ txHash # None =>
              /\ response.status = 200
              /\ response.json
              /\ response.success
              /\ response.txHash = txHash
        /\ failedAt \in {"build", "sign", "broadcast"} =>
              /\ response.status = 500
              /\ response.json
              /\ ~response.success
              /\ response.error # ""


\* two address strings naming the same account (case aside)
SameAddress(a, b) ==
    /\ a \in DOMAIN ChecksumOf
    /\ b \in DOMAIN ChecksumOf
    /\ ChecksumOf[a] = ChecksumOf[b]

\* C15: the transaction /execute signs and broadcasts is the one it
\* validated: to, data and value (a wei amount) of the signed transaction
\* equal those passed to validate in the same request, and both have the
\* service's own address as sender.
C15_SignedIsValidated ==
    tx # None =>
        /\ validated # None
        /\ validated[1].from = account_address
        /\ tx[1].from = account_address
        /\ validated[1].to # None
        /\ SameAddress(validated[1].to[1], tx[1].to)
        /\ validated[1].data = tx[1].data
        /\ validated[1].value = tx[1].value

\* C16: a response with success:false (400 or 500) is given only when no
\* transaction was broadcast in the request, and a request that broadcast a
\* transaction responds 200 with success:true and that transaction's hash,
\* also when a step after the broadcast raises.
C16_ResponseTellsBroadcast ==
    pc \in Terminal =>
        /\ (~response.success \/ response.status \in {400, 500}) =>
              /\ txHash = None
              /\ nBroadcast = 0 \/ failedAt = "broadcast"
        /\ txHash # None =>
              /\ response.status = 200
              /\ response.success
              /\ response.txHash = txHash

====
